---- MODULE Spec2Model ----
(***************************************************************************)
(* A model of microscope.py (V1 of "microscope", preliminary analysis of   *)
(* DNAm datasets): the Dataset container (load_data, organize_data,        *)
(* add_target_lables), the feature selector (select_features), the         *)
(* imputation helpers (feature_imputation_values, numba_fillna), the       *)
(* classifier set-up (model_definition, train_test) and the                *)
(* cross-validation driver (cv_train_test).                                *)
(*                                                                         *)
(* Encoding.  A missing number (numpy NaN) is the integer NaN == -1; beta  *)
(* values are small naturals.  A pandas DataFrame whose rows are samples   *)
(* is a sequence of records [samp |-> sample id, vals |-> the row, one     *)
(* value per feature column]; a pandas Series is a sequence of records     *)
(* [samp, val].  A Python exception is the name of its class in the        *)
(* variable that records how the call ended.                               *)
(***************************************************************************)
EXTENDS Integers, Sequences, FiniteSets, TLC

\* ------------------------------------------------------------------ bounds
\* Number of samples (columns of matrix_beta.tsv, rows of Dataset.df).
NSamples == 4
\* How many times load_data may be called on one Dataset object.
MaxLoads == 2

\* ------------------------------------------------------------- vocabulary
NaN == -1
\* CV="LOO" among the integer fold counts.
LOO == 0
\* Column index of df: the CpG ids, in file order.
Columns == <<"cg1", "cg2">>
NCols == Len(Columns)
SampleIds == 1..NSamples
\* Values of the "Group" column of groups.csv.
GroupNames == {"case", "control", "other"}
\* A missing entry of an object Series (orig_labels).
NoLabel == "nan"

VARIABLES
  \* ---- the Dataset object
  loaded,            \* load_data has run (mat, groups are not None)
  loads,             \* number of load_data calls so far
  mat,               \* self.mat, by column (= by sample)
  groups,            \* self.groups["Group"], a function on the ids it indexes
  shuffle,           \* the permutation df.sample(frac=1, random_state=42) applies
  attrs,             \* attributes set outside __init__: df, features, samps, orig_label_names, y
  df,                \* self.df
  features,          \* self.features
  samps,             \* self.samps
  orig_label_names,  \* self.orig_label_names
  y,                 \* self.y
  ds_op,             \* the Dataset method called last
  ds_out,            \* what that call printed
  ds_raised,         \* the exception that call ended with, or "none"
  \* ---- a run of cv_train_test or train_on_entire_dataset
  run_op,            \* the function running or run last, "none" before any
  run_pc,            \* idle | running | returned | raised
  run_raised,        \* the exception the run ended with, or "none"
  run_params,        \* its arguments
  splits,            \* what cv.split(Dataset.df) yields, in order
  fold,              \* number of folds taken from cv.split so far
  train_columns,     \* df_train.columns after the NaN-column drop (latest fold)
  imp_vals,          \* imp_vals (latest fold)
  feats_to_keep,     \* feats_to_keep (latest fold)
  fit_call,          \* what model.fit was last given (<<>>: not called)
  X_tests, y_tests, models, scalers, feats_used, y_preds, pred_probs,
  outputs,           \* the returned bundle
  \* ---- a direct call of select_features, feature_imputation_values or model_definition
  fn_call            \* [fn, arg, out (printed), raised, feats, vals, model]

dsvars == <<loaded, loads, mat, groups, shuffle, attrs, df, features, samps,
            orig_label_names, y, ds_op, ds_out, ds_raised>>

runvars == <<run_op, run_pc, run_raised, run_params, splits, fold, train_columns,
             imp_vals, feats_to_keep, fit_call, X_tests, y_tests, models, scalers, feats_used,
             y_preds, pred_probs, outputs>>

\* ------------------------------------------------------------ sequences
Range(s) == {s[i] : i \in DOMAIN s}

RECURSIVE SetToSeq(_)
\* The elements of a finite set of integers, ascending.
SetToSeq(S) ==
  IF S = {} THEN <<>>
  ELSE LET m == CHOOSE x \in S : \A z \in S : x <= z
       IN <<m>> \o SetToSeq(S \ {m})

RECURSIVE SumSeq(_)
SumSeq(s) == IF s = <<>> THEN 0 ELSE Head(s) + SumSeq(Tail(s))

RECURSIVE Insert(_, _)
\* x put into the ascending sequence s.
Insert(x, s) ==
  IF s = <<>> THEN <<x>>
  ELSE IF x <= Head(s) THEN <<x>> \o s
  ELSE <<Head(s)>> \o Insert(x, Tail(s))

RECURSIVE Sorted(_)
Sorted(s) == IF s = <<>> THEN <<>> ELSE Insert(Head(s), Sorted(Tail(s)))

\* A flattening that takes the sublists last to first: not what cv_train_test
\* does, and C8 tells the two apart.
RECURSIVE Flatten_backwards(_)
Flatten_backwards(lists) ==
  IF lists = <<>> THEN <<>> ELSE Flatten_backwards(Tail(lists)) \o Head(lists)

RECURSIVE Flatten(_)
\* [item for sublist in lists for item in sublist]
Flatten(lists) ==
  IF lists = <<>> THEN <<>> ELSE Head(lists) \o Flatten(Tail(lists))

Abs(x) == IF x < 0 THEN -x ELSE x

\* -------------------------------------------------------------- DataFrames
\* A frame is [columns |-> the column names, rows |-> <<[samp, vals]>>], the
\* vals of a row aligned with columns.  Row positions are 1-based here
\* (pandas iloc position p is position p + 1).
Frame(cols, rows) == [columns |-> cols, rows |-> rows]

\* df.iloc[index]
iloc(f, index) == Frame(f.columns, [k \in 1..Len(index) |-> f.rows[index[k]]])

\* series.iloc[index]
iloc_series(ys, index) == [k \in 1..Len(index) |-> ys[index[k]]]

\* The values of column position j, by row.
column_values(f, j) == [i \in 1..Len(f.rows) |-> f.rows[i].vals[j]]

\* The frame restricted to the column positions js, in that order.
take_columns(f, js) ==
  Frame([k \in 1..Len(js) |-> f.columns[js[k]]],
        [i \in 1..Len(f.rows) |->
           [samp |-> f.rows[i].samp,
            vals |-> [k \in 1..Len(js) |-> f.rows[i].vals[js[k]]]]])

\* A drop that removes no column: not what cv_train_test asks of dropna, and
\* C11 tells the two apart.
dropna_none(f) == f

\* df.dropna(how="any", axis=1): the columns with no missing value in any row.
dropna_any(f) ==
  take_columns(f, SetToSeq({j \in DOMAIN f.columns :
                              \A i \in DOMAIN f.rows : f.rows[i].vals[j] # NaN}))

\* df.dropna(how="all", axis=1): the columns not missing in every row.
dropna_all(f) ==
  take_columns(f, SetToSeq({j \in DOMAIN f.columns :
                              \E i \in DOMAIN f.rows : f.rows[i].vals[j] # NaN}))

\* The position of column name c in f.
column_position(f, c) == CHOOSE j \in DOMAIN f.columns : f.columns[j] = c

\* df.loc[:, names] (every name is a column of f)
loc_columns(f, names) ==
  take_columns(f, [k \in 1..Len(names) |-> column_position(f, names[k])])

\* df.values
values_of(f) == [i \in 1..Len(f.rows) |-> f.rows[i].vals]

\* pd.DataFrame(data=values, index=f.index, columns=f.columns)
with_values(f, values) ==
  Frame(f.columns, [i \in 1..Len(f.rows) |-> [samp |-> f.rows[i].samp, vals |-> values[i]]])

\* ------------------------------------------------------------- imputation
\* The non-missing entries of a sequence of values.
present(v) == SelectSeq(v, LAMBDA x : x # NaN)

\* Series.mean() of one column (skipna): the quotient is rounded down to the
\* value grid, as the float quotient is rounded to a float.
mean_of(v) ==
  IF present(v) = <<>> THEN NaN ELSE SumSeq(present(v)) \div Len(present(v))

\* Series.median() of one column (skipna).
median_of(v) ==
  LET s == Sorted(present(v))
      n == Len(s)
  IN  IF n = 0 THEN NaN
      ELSE IF n % 2 = 1 THEN s[(n + 1) \div 2]
      ELSE (s[n \div 2] + s[n \div 2 + 1]) \div 2

NanPolicies == {"impute_by_mean", "impute_by_median", "zeros"}

\* feature_imputation_values(df, nan_policy): [raised, vals], vals aligned
\* with the columns of f.  An unrecognized policy prints a message and then
\* returns the unassigned local imp_vals.
feature_imputation_values(f, nan_policy) ==
  IF nan_policy = "impute_by_mean"
  THEN [raised |-> "none",
        vals |-> [j \in DOMAIN f.columns |-> mean_of(column_values(f, j))]]
  ELSE IF nan_policy = "impute_by_median"
  THEN [raised |-> "none",
        vals |-> [j \in DOMAIN f.columns |-> median_of(column_values(f, j))]]
  ELSE IF nan_policy = "zeros"
  THEN [raised |-> "none", vals |-> [j \in DOMAIN f.columns |-> 0]]
  ELSE [raised |-> "UnboundLocalError", vals |-> <<>>]

\* numba_fillna(array, values)
numba_fillna(array, values) ==
  IF \E i \in DOMAIN array : \E j \in DOMAIN array[i] : array[i][j] = NaN
  THEN [i \in DOMAIN array |->
          [j \in DOMAIN array[i] |->
             IF array[i][j] = NaN THEN values[j] ELSE array[i][j]]]
  ELSE array

\* ------------------------------------------------------- feature selection
\* A p-value is the fraction [num, den]; PNaN is numpy's nan.
PNaN == [num |-> NaN, den |-> 1]

\* p < pval_thresh, the threshold in percent; a comparison with nan is False.
p_below(pv, thresh_pct) == pv.num # NaN /\ pv.num * 100 < thresh_pct * pv.den

\* The ways to relabel n pooled observations as n1 of the first group.
Relabelings(n, n1) == {S \in SUBSET (1..n) : Cardinality(S) = n1}

\* Twice the Mann-Whitney U statistic of the observations of z at positions S
\* against the others: 2 per pair won, 1 per tie.
U2(z, S) ==
  LET T == DOMAIN z \ S
  IN  2 * Cardinality({q \in S \X T : z[q[1]] > z[q[2]]})
      + Cardinality({q \in S \X T : z[q[1]] = z[q[2]]})

\* The p-values below are those of the exact two-sided test: the share of
\* the relabelings of the pooled sample whose statistic deviates at least as
\* much as the observed labelling's (the first n1 observations).

\* stats.mannwhitneyu(x, y)[1] of one column: two-sided, of U about its null
\* mean n1*n2/2; nan when an observation is nan.
mannwhitneyu_p(x, yy) ==
  LET z   == x \o yy
      n1  == Len(x)
      n2  == Len(yy)
      obs == Abs(U2(z, 1..n1) - n1 * n2)
      R   == Relabelings(n1 + n2, n1)
  IN  IF \E i \in DOMAIN z : z[i] = NaN THEN PNaN
      ELSE [num |-> Cardinality({S \in R : Abs(U2(z, S) - n1 * n2) >= obs}),
            den |-> Cardinality(R)]

RECURSIVE SumAt(_, _)
\* The sum of z over the positions S.
SumAt(z, S) ==
  IF S = {} THEN 0
  ELSE LET i == CHOOSE k \in S : TRUE IN z[i] + SumAt(z, S \ {i})

\* n2 * sum of the S observations - n1 * sum of the others: the difference of
\* group means, times n1 * n2.
MeanDiff(z, S) ==
  LET T == DOMAIN z \ S
  IN  Cardinality(T) * SumAt(z, S) - Cardinality(S) * SumAt(z, T)

\* stats.ttest_ind(x, y)[1] of one column: nan when an observation is nan,
\* when a group has fewer than two observations (its variance is 0/0) or when
\* nothing varies and the means agree (t = 0/0); 0 when nothing varies within
\* the groups and the means differ (t is infinite); otherwise two-sided, of
\* the difference of means.
ttest_ind_p(x, yy) ==
  LET z   == x \o yy
      n1  == Len(x)
      n2  == Len(yy)
      obs == Abs(MeanDiff(z, 1..n1))
      R   == Relabelings(n1 + n2, n1)
      constant(v) == \A i, j \in DOMAIN v : v[i] = v[j]
  IN  IF n1 < 2 \/ n2 < 2 \/ \E i \in DOMAIN z : z[i] = NaN THEN PNaN
      ELSE IF constant(x) /\ constant(yy)
      THEN (IF obs = 0 THEN PNaN ELSE [num |-> 0, den |-> 1])
      ELSE [num |-> Cardinality({S \in R : Abs(MeanDiff(z, S)) >= obs}),
            den |-> Cardinality(R)]

\* np.where(y==v)[0]: the row positions whose label is v (nan equals nothing).
where_label(ys, v) == SetToSeq({i \in DOMAIN ys : ys[i].val = v})

\* np.where(p_vals<pval_thresh)[0]: the 0-based positions of the passing columns.
where_below(p_vals, thresh_pct) ==
  SetToSeq({j - 1 : j \in {k \in DOMAIN p_vals : p_below(p_vals[k], thresh_pct)}})

\* list(itertools.compress(data, selectors)): data[k] for each k both have,
\* where selectors[k] is truthy (a nonzero number).
compress(data, selectors) ==
  LET n == IF Len(data) < Len(selectors) THEN Len(data) ELSE Len(selectors)
      keep == SetToSeq({k \in 1..n : selectors[k] # 0})
  IN  [k \in 1..Len(keep) |-> data[keep[k]]]

\* The p-values of every column of f, label-0 rows against label-1 rows.
p_values(f, ys, by) ==
  LET g0 == iloc(f, where_label(ys, 0))
      g1 == iloc(f, where_label(ys, 1))
  IN  [j \in DOMAIN f.columns |->
         IF by = "wilcox"
         THEN mannwhitneyu_p(column_values(g0, j), column_values(g1, j))
         ELSE ttest_ind_p(column_values(g0, j), column_values(g1, j))]

\* select_features(df, y, by, pval_thresh): [raised, feats].  mannwhitneyu
\* refuses an empty sample (no row of a label, or no column at all).
select_features(f, ys, by, thresh_pct) ==
  IF by = "wilcox"
  THEN IF where_label(ys, 0) = <<>> \/ where_label(ys, 1) = <<>> \/ f.columns = <<>>
       THEN [raised |-> "ValueError", feats |-> <<>>]
       ELSE [raised |-> "none",
             feats |-> compress(f.columns, where_below(p_values(f, ys, by), thresh_pct))]
  ELSE IF by = "ttest"
  THEN [raised |-> "none",
        feats |-> compress(f.columns, where_below(p_values(f, ys, by), thresh_pct))]
  ELSE [raised |-> "none", feats |-> f.columns]

\* ---------------------------------------------------------- model set-up
\* A grid of regularization strengths: num values log-spaced from 10^lo to
\* 10^hi (np.logspace(lo, hi, num)); kind "count" is a bare number of values,
\* kind "None" is Cs=None.
logspace(lo, hi, num) == [kind |-> "grid", lo |-> lo, hi |-> hi, num |-> num]
CsCount(n) == [kind |-> "count", lo |-> 0, hi |-> 0, num |-> n]
CsNone == [kind |-> "None", lo |-> 0, hi |-> 0, num |-> 0]

\* model_definition(penalty, Cs, l1_ratios): [raised, model]; model is the
\* LogisticRegressionCV configuration.  l1_ratios are in tenths, <<>> is None.
\* An unrecognized penalty prints a message and then returns the unassigned
\* local model.
model_definition(penalty, Cs, l1_ratios) ==
  LET l1_Cs == IF Cs = CsNone THEN logspace(-4, 6, 10) ELSE Cs
      l2_Cs == IF Cs = CsNone THEN CsCount(10) ELSE Cs
      ratios == IF l1_ratios = <<>> THEN <<1, 5, 9>> ELSE l1_ratios
  IN  IF penalty = "None"
      THEN [raised |-> "none",
            model |-> [penalty |-> "l2", solver |-> "lbfgs", Cs |-> logspace(5, 5, 1),
                       l1_ratios |-> <<>>]]
      ELSE IF penalty = "l1"
      THEN [raised |-> "none",
            model |-> [penalty |-> "l1", solver |-> "liblinear", Cs |-> l1_Cs,
                       l1_ratios |-> <<>>]]
      ELSE IF penalty = "l2"
      THEN [raised |-> "none",
            model |-> [penalty |-> "l2", solver |-> "lbfgs", Cs |-> l2_Cs,
                       l1_ratios |-> <<>>]]
      ELSE IF penalty = "elasticnet"
      THEN [raised |-> "none",
            model |-> [penalty |-> "elasticnet", solver |-> "saga", Cs |-> CsCount(10),
                       l1_ratios |-> ratios]]
      ELSE [raised |-> "UnboundLocalError",
            model |-> [penalty |-> "", solver |-> "", Cs |-> CsNone, l1_ratios |-> <<>>]]

\* The strengths LogisticRegressionCV searches: a number n of values stands
\* for np.logspace(-4, 4, n).
searched_Cs(model) ==
  IF model.Cs.kind = "count" THEN logspace(-4, 4, model.Cs.num) ELSE model.Cs

\* scale_train_data(X_train): [raised, scaler]; StandardScaler refuses a
\* matrix with no feature column.  The scaler is its per-feature mean_ and
\* var_ (quotients rounded down to the value grid).
scale_train_data(X) ==
  LET ncol == IF X = <<>> THEN 0 ELSE Len(X[1])
      col(j) == [i \in 1..Len(X) |-> X[i][j]]
      mu(j) == SumSeq(col(j)) \div Len(X)
      var(j) == SumSeq([i \in 1..Len(X) |-> (X[i][j] - mu(j)) * (X[i][j] - mu(j))]) \div Len(X)
  IN  IF ncol = 0 THEN [raised |-> "ValueError", scaler |-> [mean_ |-> <<>>, var_ |-> <<>>]]
      ELSE [raised |-> "none",
            scaler |-> [mean_ |-> [j \in 1..ncol |-> mu(j)],
                        var_ |-> [j \in 1..ncol |-> var(j)]]]

has_nan(X) == \E i \in DOMAIN X : \E j \in DOMAIN X[i] : X[i][j] = NaN

\* model.fit(X, y) refuses missing values in X or y and labels of one class.
fit_refuses(X, ys) ==
  \/ has_nan(X)
  \/ \E i \in DOMAIN ys : ys[i].val = NaN
  \/ Cardinality({ys[i].val : i \in DOMAIN ys}) < 2

\* The classifier fitted with configuration cfg on the scaled X and y.
fitted(cfg, X, ys) ==
  [config |-> cfg, X |-> X, y |-> [i \in DOMAIN ys |-> ys[i].val]]

\* model.predict(scaler.transform(X_test)): one prediction per test row, the
\* answer for that row of the classifier fitted in fold number fold_no.
predict(fold_no, X_test) ==
  [i \in DOMAIN X_test |-> [kind |-> "predict", model |-> fold_no, x |-> X_test[i]]]

\* model.predict_proba(scaler.transform(X_test))[:,1]
predict_proba(fold_no, X_test) ==
  [i \in DOMAIN X_test |-> [kind |-> "predict_proba", model |-> fold_no, x |-> X_test[i]]]

NoModel == fitted(model_definition("bogus", CsNone, <<>>).model, <<>>, <<>>)

\* train_test(X_train, X_test, y_train, penalty), called in fold number
\* fold_no: [raised, model, scaler, y_pred, y_pred_prob, fit_call]; fit_call
\* is what model.fit was given, <<>> when it was not reached.  solver_fails:
\* the solver's own failure (the internal cross-validation or the optimizer)
\* on data that fit does not refuse.
train_test(X_train, X_test, y_train, penalty, fold_no, solver_fails) ==
  LET sc  == scale_train_data(X_train)
      md  == model_definition(penalty, CsNone, <<>>)
      bad(e, call) == [raised |-> e, model |-> NoModel, scaler |-> sc.scaler,
                       y_pred |-> <<>>, y_pred_prob |-> <<>>, fit_call |-> call]
      call == <<[n_rows |-> Len(X_train), y |-> y_train]>>
  IN  IF sc.raised # "none" THEN bad(sc.raised, <<>>)
      ELSE IF md.raised # "none" THEN bad(md.raised, <<>>)
      ELSE IF fit_refuses(X_train, y_train) \/ solver_fails THEN bad("ValueError", call)
      ELSE IF has_nan(X_test) THEN bad("ValueError", call)
      ELSE [raised |-> "none", model |-> fitted(md.model, X_train, y_train),
            scaler |-> sc.scaler,
            y_pred |-> predict(fold_no, X_test),
            y_pred_prob |-> predict_proba(fold_no, X_test),
            fit_call |-> call]

\* -------------------------------------------------------------- splitting
\* KFold(n_splits=k).split(X) on n rows: the folds in order, each [train,
\* test] of ascending row positions; fold i tests the i-th block of
\* consecutive rows, the first n % k blocks one row longer.
\* Blocks of equal size, the remainder rows left out: not what KFold does,
\* and C2 tells the two apart.
KFold_size_even(n, k, i) == n \div k

KFold_size(n, k, i) == n \div k + (IF i <= n % k THEN 1 ELSE 0)

RECURSIVE KFold_start(_, _, _)
KFold_start(n, k, i) == IF i = 1 THEN 1 ELSE KFold_start(n, k, i - 1) + KFold_size(n, k, i - 1)

KFold_test(n, k, i) == KFold_start(n, k, i) .. (KFold_start(n, k, i) + KFold_size(n, k, i) - 1)

KFold_split(n, k) ==
  [i \in 1..k |-> [train |-> SetToSeq((1..n) \ KFold_test(n, k, i)),
                   test  |-> SetToSeq(KFold_test(n, k, i))]]

\* LeaveOneOut().split(X) on n rows.
LeaveOneOut_split(n) ==
  [i \in 1..n |-> [train |-> SetToSeq((1..n) \ {i}), test |-> <<i>>]]

\* cv.split(Dataset.df): [raised, folds].  KFold refuses fewer than two
\* splits and more splits than rows, LeaveOneOut fewer than two rows.
cv_split(CV, n) ==
  IF CV = LOO
  THEN (IF n < 2 THEN [raised |-> "ValueError", folds |-> <<>>]
        ELSE [raised |-> "none", folds |-> LeaveOneOut_split(n)])
  ELSE (IF CV < 2 \/ CV > n THEN [raised |-> "ValueError", folds |-> <<>>]
        ELSE [raised |-> "none", folds |-> KFold_split(n, CV)])

\* ----------------------------------------------------------------- Dataset
\* The two permutations the model lets sample(frac=1, random_state=42) be.
Reversed(n) == [i \in 1..n |-> n + 1 - i]
Rotated(n) == [i \in 1..n |-> (i % n) + 1]
ShufflePerms == {Reversed(NSamples), Rotated(NSamples)}

\* self.mat.transpose().sample(frac=1, random_state=42)
transpose_and_shuffle(m, perm) == [i \in 1..Len(m) |-> m[perm[i]]]

\* orig_labels: one entry per row of df, the sample's Group where groups has it.
orig_labels_of(d, g) ==
  [i \in 1..Len(d) |->
     [samp |-> d[i].samp,
      val  |-> IF d[i].samp \in DOMAIN g THEN g[d[i].samp] ELSE NoLabel]]

\* orig_labels.unique()
unique_labels(ol) == {ol[i].val : i \in DOMAIN ol}

\* orig_labels.apply(lambda x: 0 if x=="control" else 1), then NaN where
\* orig_labels is null.
binary_target(ol) ==
  [i \in 1..Len(ol) |->
     [samp |-> ol[i].samp,
      val  |-> IF ol[i].val = NoLabel THEN NaN
               ELSE IF ol[i].val = "control" THEN 0 ELSE 1]]

\* self.y.value_counts(): the values present (NaN is not counted).
value_counts_keys(ys) == {ys[i].val : i \in DOMAIN ys} \ {NaN}

\* The body of add_target_lables on a Dataset whose df is d: the new values of
\* (attrs, orig_label_names, y, ds_out, ds_raised).
add_target_lables_body(d, at) ==
  LET ol     == orig_labels_of(d, groups)
      names  == unique_labels(ol)
      both   == "case" \in names /\ "control" \in names
      one    == "case" \in names \/ "control" \in names
      newy   == IF both THEN binary_target(ol) ELSE y
      at2    == at \cup {"orig_label_names"} \cup (IF both THEN {"y"} ELSE {})
      out    == IF both THEN <<>>
                ELSE IF one THEN <<"Only one label recognized">>
                ELSE <<"Unimplemented target labels in dataset!!!">>
      keys   == value_counts_keys(newy)
  IN  /\ orig_label_names' = names
      /\ y' = newy
      /\ attrs' = at2
      /\ IF "y" \notin at2
         THEN /\ ds_raised' = "AttributeError"
              /\ ds_out' = out
         ELSE IF ~({0, 1} \subseteq keys)
         THEN /\ ds_raised' = "KeyError"
              /\ ds_out' = out
         ELSE /\ ds_raised' = "none"
              /\ ds_out' = out \o <<"Target label counts (0/1)">>

\* The matrices load_data may read: samples 1..NSamples in file order, each
\* sample's beta values all equal to v.
MatFiles == {[i \in 1..NSamples |-> [samp |-> i, vals |-> [c \in 1..NCols |-> v]]] : v \in {0, 1}}
\* The groups.csv tables load_data may read.
GroupFiles == UNION {[dom -> GroupNames] : dom \in SUBSET SampleIds}

load_data ==
  /\ loads < MaxLoads
  /\ \E m \in MatFiles, g \in GroupFiles :
       /\ mat' = m
       /\ groups' = g
  /\ loaded' = TRUE
  /\ loads' = loads + 1
  /\ ds_op' = "load_data"
  /\ ds_out' = <<>>
  /\ ds_raised' = "none"
  /\ UNCHANGED <<shuffle, attrs, df, features, samps, orig_label_names, y>>
  /\ UNCHANGED <<runvars, fn_call>>

organize_data ==
  /\ ds_op' = "organize_data"
  /\ IF ~loaded
     THEN \* self.mat is None: None has no transpose
          /\ ds_raised' = "AttributeError"
          /\ ds_out' = <<>>
          /\ UNCHANGED <<attrs, df, features, samps, orig_label_names, y>>
     ELSE LET d == transpose_and_shuffle(mat, shuffle)
          IN  /\ df' = d
              /\ features' = Columns
              /\ samps' = [i \in 1..Len(d) |-> d[i].samp]
              /\ add_target_lables_body(d, attrs \cup {"df", "features", "samps"})
  /\ UNCHANGED <<loaded, loads, mat, groups, shuffle>>
  /\ UNCHANGED <<runvars, fn_call>>

add_target_lables ==
  /\ ds_op' = "add_target_lables"
  /\ IF "df" \notin attrs
     THEN /\ ds_raised' = "AttributeError"
          /\ ds_out' = <<>>
          /\ UNCHANGED <<attrs, orig_label_names, y>>
     ELSE add_target_lables_body(df, attrs)
  /\ UNCHANGED <<loaded, loads, mat, groups, shuffle, df, features, samps>>
  /\ UNCHANGED <<runvars, fn_call>>

\* No run yet: the locals and result lists of cv_train_test are empty.
NoParams == [CV |-> LOO, penalty |-> "", feat_selection |-> "", pval_thresh |-> 0,
             nan_policy |-> ""]
NoOutputs == [trained_models |-> <<>>, scalers |-> <<>>, features_used |-> <<>>,
              X_test_data |-> <<>>, y_test |-> <<>>, y_pred |-> <<>>,
              y_pred_prob |-> <<>>, imputation_vals |-> <<>>, run_params |-> NoParams]
NoCall == [fn |-> "none", arg |-> "", out |-> <<>>, raised |-> "none", feats |-> <<>>,
           vals |-> <<>>, model |-> NoModel.config]
NoRun ==
  /\ run_op = "none"
  /\ run_pc = "idle"
  /\ run_raised = "none"
  /\ run_params = NoParams
  /\ splits = <<>>
  /\ fold = 0
  /\ train_columns = <<>>
  /\ imp_vals = <<>>
  /\ feats_to_keep = <<>>
  /\ fit_call = <<>>
  /\ X_tests = <<>>
  /\ y_tests = <<>>
  /\ models = <<>>
  /\ scalers = <<>>
  /\ feats_used = <<>>
  /\ y_preds = <<>>
  /\ pred_probs = <<>>
  /\ outputs = NoOutputs
  /\ fn_call = NoCall

\* Dataset(gse_d): nothing loaded, no derived attribute.
InitDataset ==
  /\ loaded = FALSE
  /\ loads = 0
  /\ mat = <<>>
  /\ groups = <<>>
  /\ shuffle \in ShufflePerms
  /\ attrs = {}
  /\ df = <<>>
  /\ features = <<>>
  /\ samps = <<>>
  /\ orig_label_names = {}
  /\ y = <<>>
  /\ ds_op = "init"
  /\ ds_out = <<>>
  /\ ds_raised = "none"
  /\ NoRun

vars == <<dsvars, runvars, fn_call>>

NextDataset ==
  \/ load_data
  \/ organize_data
  \/ add_target_lables

SpecDataset == InitDataset /\ [][NextDataset]_vars

\* ------------------------------------------------------- cv_train_test
\* Dataset.df as a frame.
dataset_frame(d) == Frame(Columns, d)

\* A training frame that holds the test rows too: not what cv_train_test
\* takes, and C1 tells the two apart.
train_partition_all_rows(f, sp) == f

\* df_train of a fold: Dataset.df.iloc[train_index]
train_partition(f, sp) == iloc(f, sp.train)

\* df_test of a fold: Dataset.df.iloc[test_index]
test_partition(f, sp) == iloc(f, sp.test)

\* The loop body of cv_train_test up to the call of train_test, for the fold
\* sp = [train, test] of frame f with labels ys: [raised, train_columns,
\* imp_vals, feats, X_train, X_test, y_train, y_test].
fold_prepare(f, ys, sp, params) ==
  LET df_train0 == train_partition(f, sp)
      df_test0  == test_partition(f, sp)
      y_train   == iloc_series(ys, sp.train)
      y_test    == iloc_series(ys, sp.test)
      df_train1 == dropna_any(df_train0)
      df_test1  == loc_columns(df_test0, df_train1.columns)
      impute    == params.nan_policy # "None"
      iv        == IF impute THEN feature_imputation_values(df_train1, params.nan_policy)
                   ELSE [raised |-> "none", vals |-> <<>>]
      df_train2 == IF impute /\ iv.raised = "none"
                   THEN with_values(df_train1, numba_fillna(values_of(df_train1), iv.vals))
                   ELSE df_train1
      df_test2  == IF impute /\ iv.raised = "none"
                   THEN with_values(df_test1, numba_fillna(values_of(df_test1), iv.vals))
                   ELSE df_test1
      sf        == IF params.feat_selection # "None"
                   THEN select_features(df_train2, y_train, params.feat_selection,
                                        params.pval_thresh)
                   ELSE [raised |-> "none", feats |-> df_train2.columns]
      ok        == iv.raised = "none" /\ sf.raised = "none"
  IN  [raised        |-> IF iv.raised # "none" THEN iv.raised ELSE sf.raised,
       train_columns |-> df_train1.columns,
       imp_vals      |-> iv.vals,
       feats         |-> IF ok THEN sf.feats ELSE <<>>,
       X_train       |-> IF ok THEN values_of(loc_columns(df_train2, sf.feats)) ELSE <<>>,
       X_test        |-> IF ok THEN values_of(loc_columns(df_test2, sf.feats)) ELSE <<>>,
       y_train       |-> y_train,
       y_test        |-> y_test]

\* The arguments the runs are called with.  pval_thresh is in percent.
CVs == {LOO, 2, 3, NSamples + 1}
Penalties == {"None", "l1", "l2", "elasticnet", "bogus"}
FeatSelections == {"wilcox", "ttest", "None", "bogus"}
NanPolicyArgs == NanPolicies \cup {"None", "bogus"}
PvalThreshs == {1, 70}
\* The defaults of cv_train_test's signature.
DefaultParams == [penalty |-> "l1", feat_selection |-> "wilcox", pval_thresh |-> 1,
                  nan_policy |-> "impute_by_median"]
\* The argument lists tried: any CV, and the other arguments at their
\* defaults or one of them changed.
ParamSets ==
  {q \in [CV : CVs, penalty : Penalties, feat_selection : FeatSelections,
          pval_thresh : PvalThreshs, nan_policy : NanPolicyArgs] :
     Cardinality({k \in DOMAIN DefaultParams : q[k] # DefaultParams[k]}) <= 1}

\* cv_train_test(Dataset, CV, penalty, ...): entry, up to the first fold.
cv_train_test_call ==
  /\ run_pc = "idle"
  /\ \E q \in ParamSets :
       LET sp == cv_split(q.CV, Len(df))
       IN  /\ run_params' = q
           /\ splits' = sp.folds
           /\ run_raised' = sp.raised
           /\ run_pc' = IF sp.raised = "none" THEN "running" ELSE "raised"
  /\ run_op' = "cv_train_test"
  /\ UNCHANGED <<fold, train_columns, imp_vals, feats_to_keep, fit_call, X_tests, y_tests,
                 models, scalers, feats_used, y_preds, pred_probs, outputs>>
  /\ UNCHANGED <<dsvars, fn_call>>

\* A loop that goes on to the next fold whatever the iteration raised: not
\* what cv_train_test does, and C9 tells the two apart.
after_iteration_swallowed(raised) == "running"

\* Where the loop goes after an iteration that ended with `raised`: nothing
\* in cv_train_test catches, so an exception leaves the function.
after_iteration(raised) == IF raised = "none" THEN "running" ELSE "raised"

\* One iteration of the loop over cv.split(Dataset.df).
cv_fold ==
  /\ run_op = "cv_train_test"
  /\ run_pc = "running"
  /\ fold < Len(splits)
  /\ fold' = fold + 1
  /\ \E pr \in {fold_prepare(dataset_frame(df), y, splits[fold + 1], run_params)} :
         /\ train_columns' = pr.train_columns
         /\ imp_vals' = pr.imp_vals
         /\ feats_to_keep' = pr.feats
         /\ IF pr.raised # "none"
            THEN /\ run_pc' = after_iteration(pr.raised)
                 /\ run_raised' = pr.raised
                 /\ UNCHANGED <<fit_call, X_tests, y_tests, models, scalers,
                                feats_used, y_preds, pred_probs>>
            ELSE \E solver_fails \in BOOLEAN :
                   \E tt \in {train_test(pr.X_train, pr.X_test, pr.y_train,
                                         run_params.penalty, fold + 1, solver_fails)} :
                       /\ feats_used' = Append(feats_used, pr.feats)
                       /\ X_tests' = Append(X_tests, pr.X_test)
                       /\ y_tests' = Append(y_tests, pr.y_test)
                       /\ fit_call' = tt.fit_call
                       /\ run_pc' = after_iteration(tt.raised)
                       /\ run_raised' = tt.raised
                       /\ IF tt.raised # "none"
                          THEN UNCHANGED <<models, scalers, y_preds, pred_probs>>
                          ELSE /\ models' = Append(models, tt.model)
                               /\ scalers' = Append(scalers, tt.scaler)
                               /\ y_preds' = Append(y_preds, tt.y_pred)
                               /\ pred_probs' = Append(pred_probs, tt.y_pred_prob)
  /\ UNCHANGED <<run_op, run_params, splits, outputs>>
  /\ UNCHANGED <<dsvars, fn_call>>

\* After the last fold: flatten the predictions and return the bundle (the
\* timestamp of run_params is left out).
cv_return ==
  /\ run_op = "cv_train_test"
  /\ run_pc = "running"
  /\ fold = Len(splits)
  /\ outputs' = [trained_models |-> models, scalers |-> scalers,
                 features_used |-> feats_used, X_test_data |-> X_tests,
                 y_test |-> y_tests, y_pred |-> Flatten(y_preds),
                 y_pred_prob |-> pred_probs, imputation_vals |-> <<>>,
                 run_params |-> run_params]
  /\ run_pc' = "returned"
  /\ UNCHANGED <<run_op, run_raised, run_params, splits, fold, train_columns, imp_vals,
                 feats_to_keep, fit_call, X_tests, y_tests, models, scalers, feats_used,
                 y_preds, pred_probs>>
  /\ UNCHANGED <<dsvars, fn_call>>

\* --------------------------------------------------- train_on_entire_dataset
\* train_on_entire_dataset up to the call of train_model: [raised, imp_vals,
\* feats, X, y].
entire_prepare(f, ys, params) ==
  LET df1    == dropna_all(f)
      impute == params.nan_policy # "None"
      iv     == IF impute THEN feature_imputation_values(df1, params.nan_policy)
                ELSE [raised |-> "none", vals |-> <<>>]
      df2    == IF impute /\ iv.raised = "none"
                THEN with_values(df1, numba_fillna(values_of(df1), iv.vals))
                ELSE df1
      sf     == IF params.feat_selection # "None"
                THEN select_features(df2, ys, params.feat_selection, params.pval_thresh)
                ELSE [raised |-> "none", feats |-> df2.columns]
      ok     == iv.raised = "none" /\ sf.raised = "none"
  IN  [raised   |-> IF iv.raised # "none" THEN iv.raised ELSE sf.raised,
       imp_vals |-> iv.vals,
       feats    |-> IF ok THEN sf.feats ELSE <<>>,
       X        |-> IF ok THEN values_of(loc_columns(df2, sf.feats)) ELSE <<>>,
       y        |-> ys]

\* train_model(X, y, penalty): [raised, model, scaler, fit_call]
train_model(X, ys, penalty, solver_fails) ==
  LET sc   == scale_train_data(X)
      md   == model_definition(penalty, CsNone, <<>>)
      call == <<[n_rows |-> Len(X), y |-> ys]>>
  IN  IF sc.raised # "none"
      THEN [raised |-> sc.raised, model |-> NoModel, scaler |-> sc.scaler, fit_call |-> <<>>]
      ELSE IF md.raised # "none"
      THEN [raised |-> md.raised, model |-> NoModel, scaler |-> sc.scaler, fit_call |-> <<>>]
      ELSE IF fit_refuses(X, ys) \/ solver_fails
      THEN [raised |-> "ValueError", model |-> NoModel, scaler |-> sc.scaler,
            fit_call |-> call]
      ELSE [raised |-> "none", model |-> fitted(md.model, X, ys), scaler |-> sc.scaler,
            fit_call |-> call]

\* train_on_entire_dataset(Dataset, penalty, ...), the whole call (CV is not
\* one of its arguments; the timestamp of run_params is left out).
train_on_entire_dataset ==
  /\ run_pc = "idle"
  /\ run_op' = "train_on_entire_dataset"
  /\ \E q \in {r \in ParamSets : r.CV = LOO} :
       /\ run_params' = q
       /\ \E pr \in {entire_prepare(dataset_frame(df), y, q)} :
            /\ imp_vals' = pr.imp_vals
            /\ feats_to_keep' = pr.feats
            /\ IF pr.raised # "none"
               THEN /\ run_pc' = "raised"
                    /\ run_raised' = pr.raised
                    /\ UNCHANGED <<fit_call, outputs>>
               ELSE \E solver_fails \in BOOLEAN :
                      \E tm \in {train_model(pr.X, pr.y, q.penalty, solver_fails)} :
                         /\ fit_call' = tm.fit_call
                         /\ run_raised' = tm.raised
                         /\ IF tm.raised # "none"
                            THEN /\ run_pc' = "raised"
                                 /\ UNCHANGED outputs
                            ELSE /\ run_pc' = "returned"
                                 /\ outputs' = [NoOutputs EXCEPT
                                                  !.trained_models = <<tm.model>>,
                                                  !.scalers = <<tm.scaler>>,
                                                  !.features_used = <<pr.feats>>,
                                                  !.imputation_vals = pr.imp_vals,
                                                  !.run_params = q]
  /\ UNCHANGED <<splits, fold, train_columns, X_tests, y_tests, models, scalers,
                 feats_used, y_preds, pred_probs>>
  /\ UNCHANGED <<dsvars, fn_call>>

\* The samples a Dataset may hold after organize_data: beta values 0 and 60
\* (0.0 and 1.0 on a grid of sixtieths) or missing, target 0, 1 or missing.
SampleKinds ==
  { [vals |-> <<0, 0>>,    label |-> 0],
    [vals |-> <<60, 60>>,  label |-> 1],
    [vals |-> <<NaN, 60>>, label |-> 1],
    [vals |-> <<0, NaN>>,  label |-> 0],
    [vals |-> <<60, 0>>,   label |-> NaN] }

\* An organized Dataset: add_target_lables completed, so both targets occur.
InitOrganized ==
  /\ \E ks \in [1..NSamples -> SampleKinds] :
       /\ {0, 1} \subseteq {ks[i].label : i \in 1..NSamples}
       /\ \E perm \in {Rotated(NSamples)} :
            /\ shuffle = perm
            /\ df = [i \in 1..NSamples |-> [samp |-> perm[i], vals |-> ks[i].vals]]
            /\ y = [i \in 1..NSamples |-> [samp |-> perm[i], val |-> ks[i].label]]
            /\ mat = [s \in 1..NSamples |->
                        [samp |-> s,
                         vals |-> ks[CHOOSE i \in 1..NSamples : perm[i] = s].vals]]
            /\ groups = [s \in {perm[i] : i \in {k \in 1..NSamples : ks[k].label # NaN}} |->
                           IF ks[CHOOSE i \in 1..NSamples : perm[i] = s].label = 0
                           THEN "control" ELSE "case"]
  /\ loaded = TRUE
  /\ loads = 1
  /\ attrs = {"df", "features", "samps", "orig_label_names", "y"}
  /\ features = Columns
  /\ samps = [i \in 1..NSamples |-> df[i].samp]
  /\ orig_label_names = unique_labels(orig_labels_of(df, groups))
  /\ ds_op = "organize_data"
  /\ ds_out = <<"Target label counts (0/1)">>
  /\ ds_raised = "none"
  /\ NoRun

Next ==
  \/ cv_train_test_call
  \/ cv_fold
  \/ cv_return
  \/ train_on_entire_dataset

Spec == InitOrganized /\ [][Next]_vars

\* ------------------------------------------------------------ direct calls
\* What select_features prints.
select_features_prints(by) ==
  IF by \in {"wilcox", "ttest"} THEN <<"Selecting features using wilcoxon">>
  ELSE <<"no feature selection applied">>

\* What feature_imputation_values prints.
feature_imputation_values_prints(nan_policy) ==
  IF nan_policy \in NanPolicies THEN <<>>
  ELSE <<"Unimplemented/unrecognized nan_policy defined">>

\* What model_definition prints.
model_definition_prints(penalty) ==
  IF penalty = "None" THEN <<"Not applying regularization">>
  ELSE IF penalty \in {"l1", "l2", "elasticnet"} THEN <<>>
  ELSE <<"unrecognized penalty">>

\* select_features(Dataset.df, Dataset.y, by, pval_thresh)
select_features_call ==
  /\ \E by \in FeatSelections \ {"None"}, t \in PvalThreshs :
       \E r \in {select_features(dataset_frame(df), y, by, t)} :
          fn_call' = [NoCall EXCEPT !.fn = "select_features", !.arg = by,
                                 !.out = select_features_prints(by),
                                 !.raised = r.raised, !.feats = r.feats,
                                 !.vals = <<t>>]
  /\ UNCHANGED <<dsvars, runvars>>

\* feature_imputation_values(Dataset.df, nan_policy)
feature_imputation_values_call ==
  /\ \E pol \in NanPolicyArgs \ {"None"} :
       \E r \in {feature_imputation_values(dataset_frame(df), pol)} :
          fn_call' = [NoCall EXCEPT !.fn = "feature_imputation_values", !.arg = pol,
                                 !.out = feature_imputation_values_prints(pol),
                                 !.raised = r.raised, !.vals = r.vals]
  /\ UNCHANGED <<dsvars, runvars>>

\* The grids and ratios model_definition is called with (None: the defaults).
CsArgs == {CsNone, logspace(-2, 2, 5)}
L1RatioArgs == {<<>>, <<2, 8>>}

\* model_definition(penalty, Cs=Cs, l1_ratios=l1_ratios); vals records
\* whether the two grid arguments were left at None.
model_definition_call ==
  /\ \E pen \in Penalties, Cs \in CsArgs, l1_ratios \in L1RatioArgs :
       \E r \in {model_definition(pen, Cs, l1_ratios)} :
          fn_call' = [NoCall EXCEPT !.fn = "model_definition", !.arg = pen,
                                 !.out = model_definition_prints(pen),
                                 !.raised = r.raised, !.model = r.model,
                                 !.vals = <<IF Cs = CsNone THEN 1 ELSE 0,
                                            IF l1_ratios = <<>> THEN 1 ELSE 0>>]
  /\ UNCHANGED <<dsvars, runvars>>

NextFns ==
  \/ select_features_call
  \/ feature_imputation_values_call
  \/ model_definition_call

SpecFns == InitOrganized /\ [][NextFns]_vars

\* ------------------------------------------------------ claims: the folds
\* cv.split produced folds (it did not refuse the fold count).
SplitDone == run_op = "cv_train_test" /\ splits # <<>>

\* C2: in every fold the train and test positions are disjoint; with k-fold
\* there are CV folds and every row position is tested in exactly one of
\* them; with leave-one-out there is one fold per row, each testing one row.
C2_FoldCoverage ==
  SplitDone =>
    /\ \A f \in DOMAIN splits : Range(splits[f].train) \cap Range(splits[f].test) = {}
    /\ \A i \in 1..Len(df) :
         Cardinality({f \in DOMAIN splits : i \in Range(splits[f].test)}) = 1
    /\ \A f \in DOMAIN splits :
         Cardinality(Range(splits[f].test)) = Len(splits[f].test)
    /\ run_params.CV # LOO => Len(splits) = run_params.CV
    /\ run_params.CV = LOO =>
         /\ Len(splits) = Len(df)
         /\ \A f \in DOMAIN splits : Len(splits[f].test) = 1

\* A 3-fold split of a row count 3 does not divide, and a leave-one-out one.
C2_Witness ==
  /\ SplitDone
  /\ run_params.CV = 3
  /\ Len(df) % 3 # 0
  /\ fold = 3

\* ----------------------------------------------- claims: test-data leakage
\* The dataset and labels with every row outside `train` removed, and the
\* split of what is left that trains on all of it and tests on nothing.
TrainingRowsOnly(d, train) == [k \in 1..Len(train) |-> d[train[k]]]
AllTrain(train) == [train |-> [k \in 1..Len(train) |-> k], test |-> <<>>]

\* Every row and every label a sample can have.
AllRows == [1..NCols -> {0, 60, NaN}]
AllLabels == {0, 1, NaN}

\* d with the row (the label) at position i replaced.
WithRow(d, i, r) == [d EXCEPT ![i] = [samp |-> d[i].samp, vals |-> r]]
WithLabel(ys, i, l) == [ys EXCEPT ![i] = [samp |-> ys[i].samp, val |-> l]]

\* What the fold's preprocessing learnt is what the run holds.
SameLearnt(pr) ==
  /\ pr.train_columns = train_columns
  /\ pr.imp_vals = imp_vals
  /\ pr.feats = feats_to_keep

\* C1: the latest fold's retained columns, fill values and selected features
\* are those the same preprocessing computes from the fold's training rows
\* and training labels alone, the test rows and their labels taken away; so
\* no value and no label of the test partition enters them.  Where the fold
\* tests a single row, they are also the same whatever that row's values
\* and label are.
C1_NoTestLeak ==
  (run_op = "cv_train_test" /\ fold >= 1 /\ run_pc # "returned") =>
    /\ \E tr \in {splits[fold].train} :
         SameLearnt(fold_prepare(dataset_frame(TrainingRowsOnly(df, tr)),
                                 TrainingRowsOnly(y, tr), AllTrain(tr), run_params))
    /\ Len(splits[fold].test) = 1 =>
         \E i \in {splits[fold].test[1]} :
           /\ \A r \in AllRows :
                SameLearnt(fold_prepare(dataset_frame(WithRow(df, i, r)), y,
                                        splits[fold], run_params))
           /\ \A l \in AllLabels :
                SameLearnt(fold_prepare(dataset_frame(df), WithLabel(y, i, l),
                                        splits[fold], run_params))

\* A fold that retained both columns though a test row has a missing value,
\* with fill values computed and a feature selected by the statistical test.
C1_Witness ==
  /\ run_op = "cv_train_test"
  /\ fold >= 1
  /\ run_pc # "returned"
  /\ run_params.feat_selection = "wilcox"
  /\ feats_to_keep # <<>>
  /\ imp_vals # <<>>
  /\ train_columns = Columns
  /\ \E i \in Range(splits[fold].test) : \E j \in 1..NCols : df[i].vals[j] = NaN

\* ------------------------------------------- claims: unlabelled samples
\* C5 (as claimed): samples whose target is missing are in neither comparison
\* group of select_features and are not among the labels given to model.fit.
C5_UnlabelledExcluded ==
  /\ fit_call # <<>> => \A i \in DOMAIN fit_call[1].y : fit_call[1].y[i].val # NaN
  /\ (run_op = "cv_train_test" /\ fold >= 1) =>
       LET y_train == iloc_series(y, splits[fold].train)
       IN  \A v \in {0, 1} : \A i \in Range(where_label(y_train, v)) : y_train[i].val # NaN

\* ---------------------------------------------- claims: the result bundle
\* The fold that tests row position i, and where in its test partition.
FoldOf(i) == CHOOSE f \in DOMAIN splits : i \in Range(splits[f].test)
PlaceOf(i) == CHOOSE k \in DOMAIN splits[FoldOf(i)].test : splits[FoldOf(i)].test[k] = i

\* C8: the returned y_pred has one entry per row of Dataset.df, and entry i
\* is the prediction that the model of the fold testing row i made for row
\* i (that fold's test row of the same sample, with the values of df's row).
C8_PredictionsInDatasetOrder ==
  (run_op = "cv_train_test" /\ run_pc = "returned") =>
    /\ Len(outputs.y_pred) = Len(df)
    /\ \A i \in 1..Len(df) :
         LET f == FoldOf(i)
             k == PlaceOf(i)
         IN  /\ outputs.y_pred[i].kind = "predict"
             /\ outputs.y_pred[i].model = f
             /\ outputs.y_pred[i].x = outputs.X_test_data[f][k]
             /\ outputs.y_test[f][k].samp = df[i].samp
             /\ \A c \in DOMAIN outputs.features_used[f] :
                  LET j == column_position(dataset_frame(df), outputs.features_used[f][c])
                  IN  df[i].vals[j] # NaN => outputs.y_pred[i].x[c] = df[i].vals[j]

\* A returned 2-fold run (two rows tested per fold) over rows that differ.
C8_Witness ==
  /\ run_op = "cv_train_test"
  /\ run_pc = "returned"
  /\ run_params.CV = 2
  /\ \E i, j \in 1..Len(df) : outputs.y_pred[i].x # outputs.y_pred[j].x

\* The lists a bundle holds, one entry per fold.
BundleLists(o) == <<o.trained_models, o.scalers, o.features_used, o.X_test_data,
                    o.y_test, o.y_pred_prob>>

\* C9: a run that raised has returned no bundle and an exception to show; a
\* bundle is returned only with no exception, and then holds one model,
\* scaler, feature set, test set, label set and prediction list for every
\* fold of the split; and a run that raised takes no further step.
C9_State ==
  run_op = "cv_train_test" =>
    /\ run_pc = "raised" <=> run_raised # "none"
    /\ run_pc # "returned" => outputs = NoOutputs
    /\ run_pc = "returned" =>
         /\ fold = Len(splits)
         /\ \A l \in DOMAIN BundleLists(outputs) :
              Len(BundleLists(outputs)[l]) = Len(splits)
         /\ Len(outputs.y_pred) = Len(df)

C9_AllOrNothing ==
  /\ []C9_State
  /\ [][run_pc = "raised" => UNCHANGED runvars]_vars

\* A run that raised in a later fold, after a fold had completed.
C9_Witness ==
  /\ run_op = "cv_train_test"
  /\ run_pc = "raised"
  /\ Len(models) >= 1
  /\ fold > Len(models)

\* --------------------------------------------------- claims: direct calls
\* C3 (as claimed): select_features with the Mann-Whitney or the t test
\* returns exactly the columns whose p-value is below pval_thresh.
C3_SelectsBelowThreshold ==
  (fn_call.fn = "select_features" /\ fn_call.arg \in {"wilcox", "ttest"}
     /\ fn_call.raised = "none") =>
    LET pv == p_values(dataset_frame(df), y, fn_call.arg)
    IN  Range(fn_call.feats) = {Columns[j] : j \in {k \in DOMAIN pv : p_below(pv[k], fn_call.vals[1])}}

\* The argument of the direct call is outside the function's vocabulary.
Unrecognized ==
  \/ fn_call.fn = "model_definition" /\ fn_call.arg \notin {"None", "l1", "l2", "elasticnet"}
  \/ fn_call.fn = "feature_imputation_values" /\ fn_call.arg \notin NanPolicies
  \/ fn_call.fn = "select_features" /\ fn_call.arg \notin {"wilcox", "ttest"}

\* C4 (as claimed): an unrecognized penalty, nan_policy or feature-selection
\* method is reported and the call does not complete: it returns no model, no
\* fill values, no feature list.
C4_UnrecognizedIsAnError ==
  Unrecognized =>
    /\ fn_call.out # <<>>
    /\ fn_call.raised # "none"
    /\ fn_call.feats = <<>>

\* C10 (as claimed): with Cs=None and l1_ratios=None, penalty 'l1' and
\* penalty 'l2' both search the 10 strengths log-spaced from 1e-4 to 1e6,
\* and 'elasticnet' searches the mixing ratios 0.1, 0.5, 0.9.
C10_DefaultGrids ==
  (fn_call.fn = "model_definition" /\ fn_call.vals = <<1, 1>>) =>
    /\ fn_call.arg \in {"l1", "l2"} =>
         searched_Cs(fn_call.model) = logspace(-4, 6, 10)
    /\ fn_call.arg = "elasticnet" => fn_call.model.l1_ratios = <<1, 5, 9>>

\* ------------------------------------------- claims: the NaN-column drop
\* The column positions of Dataset.df with a value in every row of `rows`.
CompleteIn(rows) == {j \in 1..NCols : \A i \in Range(rows) : df[i].vals[j] # NaN}

\* The position in Dataset.df of the k-th retained column.
RetainedPosition(k) == CHOOSE j \in 1..NCols : Columns[j] = train_columns[k]

Recognized == {"case", "control"}
\* A call that assigns targets ended normally.
TargetsAssigned ==
  /\ ds_op \in {"organize_data", "add_target_lables"}
  /\ ds_raised = "none"
  /\ Recognized \subseteq orig_label_names

\* C6 (as claimed): after organize_data / add_target_lables completes on a
\* dataset whose labels include both 'case' and 'control', y is 0 exactly for
\* the samples labelled 'control', 1 exactly for those labelled 'case', and
\* missing for every sample with no group entry or with any other label.
C6_TargetOnlyForRecognizedLabels ==
  TargetsAssigned =>
    \A i \in DOMAIN y :
      LET s == y[i].samp
      IN  /\ y[i].val = 0 <=> (s \in DOMAIN groups /\ groups[s] = "control")
          /\ y[i].val = 1 <=> (s \in DOMAIN groups /\ groups[s] = "case")
          /\ (s \notin DOMAIN groups \/ groups[s] \notin Recognized) => y[i].val = NaN

\* organize_data has just run on a Dataset loaded once (so never organized
\* under other groups).
FreshlyOrganized == loaded /\ loads = 1 /\ ds_op = "organize_data"

\* C7 (as claimed): organize_data on a freshly loaded dataset with exactly one
\* of 'case' / 'control' among its labels reports a warning and completes with
\* y set; with neither, it reports the failure, fails and sets no y.
C7_LabelVocabularyOutcome ==
  FreshlyOrganized =>
    LET n == Cardinality(Recognized \cap orig_label_names)
    IN  /\ n = 1 => /\ "Only one label recognized" \in Range(ds_out)
                    /\ ds_raised = "none"
                    /\ "y" \in attrs
        /\ n = 0 => /\ "Unimplemented target labels in dataset!!!" \in Range(ds_out)
                    /\ ds_raised # "none"
                    /\ "y" \notin attrs

====
